---- MODULE Spec2Model ----
(***************************************************************************)
(* The investment / transaction ledger of theboost-backend: user wallets,  *)
(* property token inventories, investment positions and the transaction    *)
(* journal, with the service-layer operations that move value between      *)
(* them.                                                                   *)
(*                                                                         *)
(* Every handler is an async function: it runs without interruption up to  *)
(* each `await` of a database call.  A handler is modelled as the sequence *)
(* of its database calls; the synchronous code that follows a call is part *)
(* of that call's step.  Spec runs every handler to completion in one      *)
(* action (requests served one after the other); SpecConc lets two         *)
(* requests in flight interleave at their awaits.                          *)
(***************************************************************************)
EXTENDS Integers, Sequences, FiniteSets, TLC

(* ------------------------------ bounds -------------------------------- *)
TotalTokens == 3        \* totalTokens of the property created in Init
TokenPrice == 2         \* its tokenPrice
MinInvestment == 4      \* its minInvestment
MaxTime == 2            \* the clock runs over 1..MaxTime
MaxTransactions == 3    \* journal entries created in one behaviour
MaxInvestments == 2     \* positions created in one behaviour
MaxSellOrders == 2      \* sell orders pushed in one behaviour
MaxDividends == 1       \* dividends paid in one behaviour
MaxServed == 6          \* requests that change the database in one behaviour of Spec
MaxStarted == 2         \* requests started in one behaviour of SpecConc

Users == {"u1", "u2", "u3"}
Investors == {"u1"}     \* the users who send wallet and purchase requests
Owner == "u2"           \* the user who created the property
Admins == {"u2"}        \* the users who send confirmations and refunds
AdminRole == {"u2", "u3"}   \* the users whose role is 'admin'; u3 owns no property
Props == {"p1"}
TokenAddress == 1       \* the address the blockchain service answers with
Unset == 0              \* an absent Date / id / hash (falsy in JS)
Times == 1..MaxTime

VARIABLES
  users,         \* User collection: id -> [walletBalance, totalInvestments]
  properties,    \* Property collection: id -> property document
  investments,   \* Investment collection, in creation order (index = _id)
  transactions,  \* Transaction collection, in creation order (index = _id)
  now,           \* the wall clock read by `new Date()`
  reqs,          \* requests in flight: slot -> handler position and locals
  response,      \* the last response sent: [op, result]
  served         \* how many requests the behaviour has spent of its budget

vars == <<users, properties, investments, transactions, now, reqs, response, served>>

\* The database as one value, for the handlers' steps.
DB == [users |-> users, properties |-> properties,
       investments |-> investments, transactions |-> transactions]

(* ----------------------------- JS helpers ------------------------------ *)
\* a || b on numbers: 0 (like undefined and NaN) is falsy.
OrElse(a, b) == IF a # 0 THEN a ELSE b

\* Math.floor(a / b) for a >= 0, b > 0.
Floor(a, b) == a \div b

Idx(s) == 1..Len(s)

(* --------------------------- request records --------------------------- *)
Idle == [op |-> "idle"]

NewReq(op, actor, args) ==
  [op |-> op, actor |-> actor, args |-> args, pc |-> "start",
   loc |-> [x |-> 0], result |-> "pending"]

\* One step's outcome: the database after it and the request after it.
Goto(db, rq, pc, loc) == [db |-> db, rq |-> [rq EXCEPT !.pc = pc, !.loc = loc]]
Finish(db, rq, result) == [db |-> db, rq |-> [rq EXCEPT !.pc = "done", !.result = result]]

(* ------------------------------ Property ------------------------------- *)
\* Property.isInvestmentOpen(): `now` is read when the method runs.
isInvestmentOpen(p, t) ==
  /\ p.status = "Funding"
  /\ (p.investmentWindowStart = Unset \/ t >= p.investmentWindowStart)
  /\ (p.investmentWindowEnd = Unset \/ t <= p.investmentWindowEnd)

\* fundingPercentage is a JS number; kept as the exact fraction num/den.
Frac(n, d) == [num |-> n, den |-> d]

\* The schema's validators on fundingPercentage (min 0, max 1); a zero
\* denominator is NaN or Infinity, which fails validation as well.
FundingPercentageValid(f) == f.den > 0 /\ f.num >= 0 /\ f.num <= f.den

(* ------------------- InvestmentService.createInvestment ---------------- *)
\* args: [property, tokensPurchased, investmentAmount]
\* A variant of createInvestment_findProperty with the minimum-investment
\* check moved before the inventory check.
createInvestment_findProperty_minFirst(db, t, rq) ==
  IF rq.args.property \notin DOMAIN db.properties
  THEN Finish(db, rq, "NotFound")
  ELSE
    LET property == db.properties[rq.args.property]
        tokensPurchased == OrElse(rq.args.tokensPurchased,
                                  Floor(rq.args.investmentAmount, property.tokenPrice))
        investmentAmount == OrElse(rq.args.investmentAmount,
                                   tokensPurchased * property.tokenPrice)
    IN IF ~isInvestmentOpen(property, t) THEN Finish(db, rq, "InvalidState")
       ELSE IF tokensPurchased <= 0 THEN Finish(db, rq, "ValidationError")
       ELSE IF investmentAmount < property.minInvestment
            THEN Finish(db, rq, "ValidationError")
       ELSE IF tokensPurchased > property.availableTokens
            THEN Finish(db, rq, "InsufficientInventory")
       ELSE Goto(db, rq, "findUser",
                 [property |-> property, tokensPurchased |-> tokensPurchased,
                  investmentAmount |-> investmentAmount])

\* await Property.findById, then the synchronous checks up to User.findById.
createInvestment_findProperty(db, t, rq) ==
  IF rq.args.property \notin DOMAIN db.properties
  THEN Finish(db, rq, "NotFound")
  ELSE
    LET property == db.properties[rq.args.property]
        tokensPurchased == OrElse(rq.args.tokensPurchased,
                                  Floor(rq.args.investmentAmount, property.tokenPrice))
        investmentAmount == OrElse(rq.args.investmentAmount,
                                   tokensPurchased * property.tokenPrice)
    IN IF ~isInvestmentOpen(property, t) THEN Finish(db, rq, "InvalidState")
       ELSE IF tokensPurchased <= 0 THEN Finish(db, rq, "ValidationError")
       ELSE IF tokensPurchased > property.availableTokens
            THEN Finish(db, rq, "InsufficientInventory")
       ELSE IF investmentAmount < property.minInvestment
            THEN Finish(db, rq, "ValidationError")
       ELSE Goto(db, rq, "findUser",
                 [property |-> property, tokensPurchased |-> tokensPurchased,
                  investmentAmount |-> investmentAmount])

\* await User.findById, then the balance check up to Investment.create.
createInvestment_findUser(db, t, rq) ==
  LET user == db.users[rq.actor]
  IN IF user.walletBalance < rq.loc.investmentAmount
     THEN Finish(db, rq, "InsufficientFunds")
     ELSE Goto(db, rq, "createInvestment",
               [property |-> rq.loc.property,
                tokensPurchased |-> rq.loc.tokensPurchased,
                investmentAmount |-> rq.loc.investmentAmount,
                user |-> user])

\* A new Investment document with the schema's defaults.
NewInvestment(userId, propertyId, tokensPurchased, investmentAmount, tokenPrice) ==
  [user |-> userId, property |-> propertyId,
   tokensPurchased |-> tokensPurchased, investmentAmount |-> investmentAmount,
   tokenPrice |-> tokenPrice, status |-> "Active",
   currentValue |-> investmentAmount, dividends |-> <<>>, sellOrders |-> <<>>]

\* await Investment.create, then the local decrement up to property.save.
createInvestment_createInvestment(db, t, rq) ==
  LET l == rq.loc
      doc == NewInvestment(rq.actor, rq.args.property, l.tokensPurchased,
                           l.investmentAmount, l.property.tokenPrice)
      availableTokens == l.property.availableTokens - l.tokensPurchased
      property == [l.property EXCEPT
                     !.availableTokens = availableTokens,
                     !.fundingPercentage =
                        Frac(l.property.totalTokens - availableTokens,
                             l.property.totalTokens)]
  IN IF l.tokensPurchased < 1 \/ l.investmentAmount < 0
     THEN Finish(db, rq, "InternalError")   \* schema min validators
     ELSE Goto([db EXCEPT !.investments = Append(@, doc)], rq, "saveProperty",
               [l EXCEPT !.property = property] @@
               [newInvestment |-> Len(db.investments) + 1])

\* await property.save(): writes the two modified paths from the local copy.
createInvestment_saveProperty(db, t, rq) ==
  LET l == rq.loc
      id == rq.args.property
  IN IF ~FundingPercentageValid(l.property.fundingPercentage)
     THEN Finish(db, rq, "InternalError")
     ELSE Goto([db EXCEPT !.properties[id].availableTokens = l.property.availableTokens,
                          !.properties[id].fundingPercentage = l.property.fundingPercentage],
               rq, "saveUser",
               [l EXCEPT !.user = [@ EXCEPT
                   !.walletBalance = @ - l.investmentAmount,
                   !.totalInvestments = @ + l.investmentAmount]])

\* A variant of createInvestment_saveUser that saves the debit but not the
\* cumulative invested amount.
createInvestment_saveUser_noTotal(db, t, rq) ==
  Goto([db EXCEPT !.users[rq.actor].walletBalance = rq.loc.user.walletBalance],
       rq, "createTransaction", rq.loc)

\* await user.save(): writes walletBalance and totalInvestments from the local copy.
createInvestment_saveUser(db, t, rq) ==
  Goto([db EXCEPT !.users[rq.actor].walletBalance = rq.loc.user.walletBalance,
                  !.users[rq.actor].totalInvestments = rq.loc.user.totalInvestments],
       rq, "createTransaction", rq.loc)

\* A new Transaction document; omitted optional fields are Unset.  No handler
\* reads the value of completedAt: the journal keeps whether it is set.
NewTransaction(userId, type, amount, status, entityType, entityId, completedAt, refunded) ==
  [user |-> userId, type |-> type, amount |-> amount, status |-> status,
   relatedEntity |-> [entityType |-> entityType, entityId |-> entityId],
   completedAt |-> completedAt, blockchainTransactionHash |-> Unset,
   refundedTransaction |-> refunded]

\* Variant of the blockchain block in which a failed transfer is rethrown.
recordOnBlockchain_rethrows(property) ==
  IF property.blockchainTokenAddress # Unset THEN "InternalError" ELSE "ok"

\* The block after the journal entry: `if (property.blockchainTokenAddress)
\* { try { } catch { console.error } }`. The transfer is commented out, so
\* the try block is empty and nothing is thrown or awaited.
recordOnBlockchain(property) ==
  IF property.blockchainTokenAddress # Unset THEN "ok" ELSE "ok"

\* await Transaction.create({... completedAt: Date.now()}), then the
\* blockchain block, then the handler returns.
createInvestment_createTransaction(db, t, rq) ==
  Finish([db EXCEPT !.transactions =
            Append(@, NewTransaction(rq.actor, "Investment Purchase",
                                     rq.loc.investmentAmount, "Completed",
                                     "Investment", rq.loc.newInvestment, TRUE, Unset))],
         rq, recordOnBlockchain(rq.loc.property))

createInvestment_step(db, t, rq) ==
  CASE rq.pc = "start" -> createInvestment_findProperty(db, t, rq)
    [] rq.pc = "findUser" -> createInvestment_findUser(db, t, rq)
    [] rq.pc = "createInvestment" -> createInvestment_createInvestment(db, t, rq)
    [] rq.pc = "saveProperty" -> createInvestment_saveProperty(db, t, rq)
    [] rq.pc = "saveUser" -> createInvestment_saveUser(db, t, rq)
    [] rq.pc = "createTransaction" -> createInvestment_createTransaction(db, t, rq)

(* -------------------- TransactionService.createDeposit ----------------- *)
\* args: [amount]. The amount check is synchronous; Transaction.create is
\* the only database call.
createDeposit_create(db, t, rq) ==
  IF rq.args.amount = 0 \/ rq.args.amount <= 0
  THEN Finish(db, rq, "ValidationError")
  ELSE Finish([db EXCEPT !.transactions =
                 Append(@, NewTransaction(rq.actor, "Deposit", rq.args.amount,
                                          "Pending", Unset, Unset, FALSE, Unset))],
              rq, "ok")

createDeposit_step(db, t, rq) == createDeposit_create(db, t, rq)

(* ------------------ TransactionService.createWithdrawal ---------------- *)
\* A variant of createWithdrawal_findUser without the balance check.
createWithdrawal_findUser_noBalance(db, t, rq) ==
  IF rq.args.amount = 0 \/ rq.args.amount <= 0
  THEN Finish(db, rq, "ValidationError")
  ELSE Goto(db, rq, "createTransaction", rq.loc)

\* args: [amount]. The amount check, await User.findById, the balance check.
createWithdrawal_findUser(db, t, rq) ==
  IF rq.args.amount = 0 \/ rq.args.amount <= 0
  THEN Finish(db, rq, "ValidationError")
  ELSE IF db.users[rq.actor].walletBalance < rq.args.amount
  THEN Finish(db, rq, "InsufficientFunds")
  ELSE Goto(db, rq, "createTransaction", rq.loc)

\* await Transaction.create of the pending withdrawal.
createWithdrawal_create(db, t, rq) ==
  Finish([db EXCEPT !.transactions =
            Append(@, NewTransaction(rq.actor, "Withdrawal", rq.args.amount,
                                     "Pending", Unset, Unset, FALSE, Unset))],
         rq, "ok")

createWithdrawal_step(db, t, rq) ==
  CASE rq.pc = "start" -> createWithdrawal_findUser(db, t, rq)
    [] rq.pc = "createTransaction" -> createWithdrawal_create(db, t, rq)

(* ----------------- TransactionService.confirmTransaction --------------- *)
\* args: [id, hash].
\* TransactionService.confirmTransaction: await Transaction.findById, the
\* Completed check and the local assignments.  The service's copy of the
\* handler takes an adminId and never looks at it.
service_confirmTransaction_find(db, t, rq) ==
  IF rq.args.id \notin Idx(db.transactions) THEN Finish(db, rq, "NotFound")
  ELSE
    LET transaction == db.transactions[rq.args.id]
    IN IF transaction.status = "Completed" THEN Finish(db, rq, "InvalidState")
       ELSE Goto(db, rq, "saveTransaction",
                 [transaction |-> [transaction EXCEPT
                     !.status = "Completed",
                     !.completedAt = TRUE,
                     !.blockchainTransactionHash = OrElse(rq.args.hash, @)]])

\* A variant of confirmTransaction_find without the already-completed check.
confirmTransaction_find_noCheck(db, t, rq) ==
  IF rq.args.id \notin Idx(db.transactions) THEN Finish(db, rq, "NotFound")
  ELSE IF rq.actor \notin AdminRole THEN Finish(db, rq, "PermissionDenied")
  ELSE
    LET transaction == db.transactions[rq.args.id]
    IN Goto(db, rq, "saveTransaction",
            [transaction |-> [transaction EXCEPT
                !.status = "Completed",
                !.completedAt = TRUE,
                !.blockchainTransactionHash = OrElse(rq.args.hash, @)]])

\* The handler the route runs: await Transaction.findById, the role check,
\* the Completed check and the local status / completedAt / hash assignments.
confirmTransaction_find(db, t, rq) ==
  IF rq.args.id \notin Idx(db.transactions) THEN Finish(db, rq, "NotFound")
  ELSE IF rq.actor \notin AdminRole THEN Finish(db, rq, "PermissionDenied")
  ELSE
    LET transaction == db.transactions[rq.args.id]
    IN IF transaction.status = "Completed" THEN Finish(db, rq, "InvalidState")
       ELSE Goto(db, rq, "saveTransaction",
                 [transaction |-> [transaction EXCEPT
                     !.status = "Completed",
                     !.completedAt = TRUE,
                     !.blockchainTransactionHash = OrElse(rq.args.hash, @)]])

\* The unique sparse index on Transaction.blockchainTransactionHash.
HashTaken(txs, id, hash) ==
  hash # Unset /\ \E j \in Idx(txs) : j # id /\ txs[j].blockchainTransactionHash = hash

\* Variant of transaction.save() on a collection without the unique index.
confirmTransaction_save_noIndex(db, t, rq) ==
  LET tx == rq.loc.transaction
      id == rq.args.id
  IN Goto([db EXCEPT !.transactions[id].status = tx.status,
                     !.transactions[id].completedAt = tx.completedAt,
                     !.transactions[id].blockchainTransactionHash =
                        IF rq.args.hash # Unset THEN tx.blockchainTransactionHash ELSE @],
          rq, "findUser", rq.loc)

\* await transaction.save(): status, completedAt and the hash when given.
confirmTransaction_save(db, t, rq) ==
  LET tx == rq.loc.transaction
      id == rq.args.id
  IN IF rq.args.hash # Unset /\ HashTaken(db.transactions, id, tx.blockchainTransactionHash)
     THEN Finish(db, rq, "InternalError")   \* E11000 duplicate key
     ELSE Goto([db EXCEPT !.transactions[id].status = tx.status,
                          !.transactions[id].completedAt = tx.completedAt,
                          !.transactions[id].blockchainTransactionHash =
                             IF rq.args.hash # Unset THEN tx.blockchainTransactionHash ELSE @],
               rq, "findUser", rq.loc)

\* await User.findById(transaction.user), then the local credit or debit.
confirmTransaction_findUser(db, t, rq) ==
  LET tx == rq.loc.transaction
      user == db.users[tx.user]
      walletBalance == IF tx.type = "Deposit" THEN user.walletBalance + tx.amount
                       ELSE IF tx.type = "Withdrawal" THEN user.walletBalance - tx.amount
                       ELSE user.walletBalance
  IN Goto(db, rq, "saveUser",
          [transaction |-> tx, user |-> [user EXCEPT !.walletBalance = walletBalance],
           modified |-> tx.type \in {"Deposit", "Withdrawal"}])

\* await user.save(): writes walletBalance when it was assigned.
confirmTransaction_saveUser(db, t, rq) ==
  Finish(IF rq.loc.modified
         THEN [db EXCEPT !.users[rq.loc.transaction.user].walletBalance =
                           rq.loc.user.walletBalance]
         ELSE db,
         rq, "ok")

confirmTransaction_step(db, t, rq) ==
  CASE rq.pc = "start" -> confirmTransaction_find(db, t, rq)
    [] rq.pc = "saveTransaction" -> confirmTransaction_save(db, t, rq)
    [] rq.pc = "findUser" -> confirmTransaction_findUser(db, t, rq)
    [] rq.pc = "saveUser" -> confirmTransaction_saveUser(db, t, rq)

(* ------------------ TransactionService.cancelTransaction --------------- *)
\* args: [id]. TransactionService.cancelTransaction: await
\* Transaction.findById, the owner and Pending checks.
service_cancelTransaction_find(db, t, rq) ==
  IF rq.args.id \notin Idx(db.transactions) THEN Finish(db, rq, "NotFound")
  ELSE
    LET transaction == db.transactions[rq.args.id]
    IN IF transaction.user # rq.actor THEN Finish(db, rq, "PermissionDenied")
       ELSE IF transaction.status # "Pending" THEN Finish(db, rq, "InvalidState")
       ELSE Goto(db, rq, "saveTransaction", rq.loc)

\* The handler the route runs: await Transaction.findById, the permission
\* check (the entry's owner, or any user with the admin role) and the Pending
\* check.
cancelTransaction_find(db, t, rq) ==
  IF rq.args.id \notin Idx(db.transactions) THEN Finish(db, rq, "NotFound")
  ELSE
    LET transaction == db.transactions[rq.args.id]
    IN IF transaction.user # rq.actor /\ rq.actor \notin AdminRole
       THEN Finish(db, rq, "PermissionDenied")
       ELSE IF transaction.status # "Pending" THEN Finish(db, rq, "InvalidState")
       ELSE Goto(db, rq, "saveTransaction", rq.loc)

\* Variant of transaction.save() that also stamps completedAt.
cancelTransaction_save_stamped(db, t, rq) ==
  Finish([db EXCEPT !.transactions[rq.args.id].status = "Failed",
                    !.transactions[rq.args.id].completedAt = TRUE],
         rq, "ok")

\* await transaction.save() with status Failed.
cancelTransaction_save(db, t, rq) ==
  Finish([db EXCEPT !.transactions[rq.args.id].status = "Failed"], rq, "ok")

cancelTransaction_step(db, t, rq) ==
  CASE rq.pc = "start" -> cancelTransaction_find(db, t, rq)
    [] rq.pc = "saveTransaction" -> cancelTransaction_save(db, t, rq)

(* -------------------- TransactionService.processRefund ----------------- *)
refundableTypes == {"Deposit", "Investment Purchase"}

\* args: [id].
\* A variant of processRefund_find without the refundable-type check.
processRefund_find_anyType(db, t, rq) ==
  IF rq.args.id \notin Idx(db.transactions) THEN Finish(db, rq, "NotFound")
  ELSE
    LET transaction == db.transactions[rq.args.id]
    IN IF transaction.status # "Completed" THEN Finish(db, rq, "InvalidState")
       ELSE Goto(db, rq, "createRefund", [transaction |-> transaction])

\* await Transaction.findById, the status and type checks.
processRefund_find(db, t, rq) ==
  IF rq.args.id \notin Idx(db.transactions) THEN Finish(db, rq, "NotFound")
  ELSE
    LET transaction == db.transactions[rq.args.id]
    IN IF transaction.status # "Completed" THEN Finish(db, rq, "InvalidState")
       ELSE IF transaction.type \notin refundableTypes THEN Finish(db, rq, "InvalidState")
       ELSE Goto(db, rq, "createRefund", [transaction |-> transaction])

\* await Transaction.create of the inverse entry, then the local status.
processRefund_create(db, t, rq) ==
  LET tx == rq.loc.transaction
      refund == NewTransaction(tx.user,
                  IF tx.type = "Deposit" THEN "Withdrawal" ELSE "Investment Sale",
                  tx.amount, "Completed", tx.relatedEntity.entityType,
                  tx.relatedEntity.entityId, TRUE, rq.args.id)
  IN Goto([db EXCEPT !.transactions = Append(@, refund)], rq, "saveTransaction", rq.loc)

\* Variant of transaction.save() that also rewrites the entry's amount.
processRefund_save_zeroAmount(db, t, rq) ==
  LET db2 == [db EXCEPT !.transactions[rq.args.id].status = "Refunded",
                        !.transactions[rq.args.id].amount = 0]
  IN IF rq.loc.transaction.type = "Investment Purchase"
     THEN Goto(db2, rq, "findUser", rq.loc)
     ELSE Finish(db2, rq, "ok")

\* Variant of transaction.save() after which every refund goes on to the
\* wallet, whatever the type of the original.
processRefund_save_toWallet(db, t, rq) ==
  Goto([db EXCEPT !.transactions[rq.args.id].status = "Refunded"], rq, "findUser", rq.loc)

\* await transaction.save() with status Refunded; a purchase goes on to the
\* wallet, a deposit returns.
processRefund_save(db, t, rq) ==
  LET db2 == [db EXCEPT !.transactions[rq.args.id].status = "Refunded"]
  IN IF rq.loc.transaction.type = "Investment Purchase"
     THEN Goto(db2, rq, "findUser", rq.loc)
     ELSE Finish(db2, rq, "ok")

\* await User.findById(transaction.user), then the local credit.
processRefund_findUser(db, t, rq) ==
  LET tx == rq.loc.transaction
      user == db.users[tx.user]
  IN Goto(db, rq, "saveUser",
          [transaction |-> tx,
           user |-> [user EXCEPT !.walletBalance = @ + tx.amount]])

\* Variant of user.save() that also takes the refunded amount off the
\* cumulative invested amount.
processRefund_saveUser_andTotal(db, t, rq) ==
  Finish([db EXCEPT !.users[rq.loc.transaction.user].walletBalance =
                      rq.loc.user.walletBalance,
                    !.users[rq.loc.transaction.user].totalInvestments =
                      @ - rq.loc.transaction.amount],
         rq, "ok")

\* await user.save().
processRefund_saveUser(db, t, rq) ==
  Finish([db EXCEPT !.users[rq.loc.transaction.user].walletBalance =
                      rq.loc.user.walletBalance],
         rq, "ok")

processRefund_step(db, t, rq) ==
  CASE rq.pc = "start" -> processRefund_find(db, t, rq)
    [] rq.pc = "createRefund" -> processRefund_create(db, t, rq)
    [] rq.pc = "saveTransaction" -> processRefund_save(db, t, rq)
    [] rq.pc = "findUser" -> processRefund_findUser(db, t, rq)
    [] rq.pc = "saveUser" -> processRefund_saveUser(db, t, rq)

(* ------------------- InvestmentService.createSellOrder ----------------- *)
\* args: [id, quantity, price]. await Investment.findById, the owner, status
\* and quantity checks.
createSellOrder_find(db, t, rq) ==
  IF rq.args.id \notin Idx(db.investments) THEN Finish(db, rq, "NotFound")
  ELSE
    LET investment == db.investments[rq.args.id]
        quantity == rq.args.quantity
    IN IF investment.user # rq.actor THEN Finish(db, rq, "PermissionDenied")
       ELSE IF investment.status # "Active" THEN Finish(db, rq, "InvalidState")
       ELSE IF quantity <= 0 \/ quantity > investment.tokensPurchased
            THEN Finish(db, rq, "ValidationError")
       ELSE Goto(db, rq, "saveInvestment", rq.loc)

\* Variant of investment.save() that also takes the offered quantity off the
\* position.
createSellOrder_save_reserves(db, t, rq) ==
  Finish([db EXCEPT !.investments[rq.args.id].sellOrders =
            Append(@, [quantity |-> rq.args.quantity, price |-> rq.args.price,
                       status |-> "Open"]),
                    !.investments[rq.args.id].tokensPurchased = @ - rq.args.quantity],
         rq, "ok")

\* await investment.save(): the pushed order is appended to the stored array.
createSellOrder_save(db, t, rq) ==
  Finish([db EXCEPT !.investments[rq.args.id].sellOrders =
            Append(@, [quantity |-> rq.args.quantity, price |-> rq.args.price,
                       status |-> "Open"])],
         rq, "ok")

createSellOrder_step(db, t, rq) ==
  CASE rq.pc = "start" -> createSellOrder_find(db, t, rq)
    [] rq.pc = "saveInvestment" -> createSellOrder_save(db, t, rq)

(* ------------------- InvestmentService.cancelSellOrder ----------------- *)
\* Variant of the lookup without the Open check.
cancelSellOrder_find_anyStatus(db, t, rq) ==
  IF rq.args.id \notin Idx(db.investments) THEN Finish(db, rq, "NotFound")
  ELSE
    LET investment == db.investments[rq.args.id]
    IN IF rq.args.order \notin Idx(investment.sellOrders) THEN Finish(db, rq, "NotFound")
       ELSE IF investment.user # rq.actor THEN Finish(db, rq, "PermissionDenied")
       ELSE Goto(db, rq, "saveInvestment", rq.loc)

\* args: [id, order]. await Investment.findOne by investment and order id,
\* the owner and Open checks.
cancelSellOrder_find(db, t, rq) ==
  IF rq.args.id \notin Idx(db.investments) THEN Finish(db, rq, "NotFound")
  ELSE
    LET investment == db.investments[rq.args.id]
    IN IF rq.args.order \notin Idx(investment.sellOrders) THEN Finish(db, rq, "NotFound")
       ELSE IF investment.user # rq.actor THEN Finish(db, rq, "PermissionDenied")
       ELSE IF investment.sellOrders[rq.args.order].status # "Open"
            THEN Finish(db, rq, "InvalidState")
       ELSE Goto(db, rq, "saveInvestment", rq.loc)

\* await investment.save(): sets the one order's status.
cancelSellOrder_save(db, t, rq) ==
  Finish([db EXCEPT !.investments[rq.args.id].sellOrders[rq.args.order].status =
                      "Cancelled"],
         rq, "ok")

cancelSellOrder_step(db, t, rq) ==
  CASE rq.pc = "start" -> cancelSellOrder_find(db, t, rq)
    [] rq.pc = "saveInvestment" -> cancelSellOrder_save(db, t, rq)

(* ---------------- InvestmentService.updateInvestmentValue -------------- *)
\* args: [id, value]. await Investment.findById.
updateInvestmentValue_find(db, t, rq) ==
  IF rq.args.id \notin Idx(db.investments) THEN Finish(db, rq, "NotFound")
  ELSE Goto(db, rq, "findProperty", [investment |-> db.investments[rq.args.id]])

\* await Property.findById(investment.property), then the permission check
\* of the handler the route runs: the owner, or any user with the admin role
\* (the service's copy of the check has no role exemption).
updateInvestmentValue_findProperty(db, t, rq) ==
  IF rq.loc.investment.property \notin DOMAIN db.properties
  THEN Finish(db, rq, "NotFound")
  ELSE IF /\ db.properties[rq.loc.investment.property].owner # rq.actor
          /\ rq.actor \notin AdminRole
  THEN Finish(db, rq, "PermissionDenied")
  ELSE Goto(db, rq, "saveInvestment", rq.loc)

\* Variant of investment.save() that also rewrites the invested amount.
updateInvestmentValue_save_andAmount(db, t, rq) ==
  Finish([db EXCEPT !.investments[rq.args.id].currentValue = rq.args.value,
                    !.investments[rq.args.id].investmentAmount = rq.args.value],
         rq, "ok")

\* await investment.save() with the new currentValue.
updateInvestmentValue_save(db, t, rq) ==
  Finish([db EXCEPT !.investments[rq.args.id].currentValue = rq.args.value], rq, "ok")

updateInvestmentValue_step(db, t, rq) ==
  CASE rq.pc = "start" -> updateInvestmentValue_find(db, t, rq)
    [] rq.pc = "findProperty" -> updateInvestmentValue_findProperty(db, t, rq)
    [] rq.pc = "saveInvestment" -> updateInvestmentValue_save(db, t, rq)

(* --------------------- InvestmentService.addDividend ------------------- *)
\* args: [id, amount, type]. await Investment.findById.
addDividend_find(db, t, rq) ==
  IF rq.args.id \notin Idx(db.investments) THEN Finish(db, rq, "NotFound")
  ELSE Goto(db, rq, "findProperty", [investment |-> db.investments[rq.args.id]])

\* await Property.findById(investment.property), then the permission check
\* of the handler the route runs: the owner, or any user with the admin role
\* (the service's copy of the check has no role exemption).
addDividend_findProperty(db, t, rq) ==
  IF rq.loc.investment.property \notin DOMAIN db.properties
  THEN Finish(db, rq, "NotFound")
  ELSE IF /\ db.properties[rq.loc.investment.property].owner # rq.actor
          /\ rq.actor \notin AdminRole
  THEN Finish(db, rq, "PermissionDenied")
  ELSE Goto(db, rq, "saveInvestment", rq.loc)

\* await investment.save(): the pushed dividend is appended to the stored array.
addDividend_save(db, t, rq) ==
  Goto([db EXCEPT !.investments[rq.args.id].dividends =
          Append(@, [amount |-> rq.args.amount, type |-> rq.args.type])],
       rq, "createTransaction", rq.loc)

\* await Transaction.create of the Completed Dividend entry: the schema
\* requires amount, so a body without one is rejected here with a mongoose
\* ValidationError ("Invalid input data"), after the dividend was saved.
addDividend_createTransaction(db, t, rq) ==
  IF rq.args.amount = Unset THEN Finish(db, rq, "ValidationError")
  ELSE
  Goto([db EXCEPT !.transactions =
          Append(@, NewTransaction(rq.loc.investment.user, "Dividend", rq.args.amount,
                                   "Completed", "Investment", rq.args.id, TRUE, Unset))],
       rq, "findUser", rq.loc)

\* await User.findById(investment.user), then the local credit.
addDividend_findUser(db, t, rq) ==
  LET user == db.users[rq.loc.investment.user]
  IN Goto(db, rq, "saveUser",
          [investment |-> rq.loc.investment,
           user |-> [user EXCEPT !.walletBalance = @ + rq.args.amount]])

\* Variant of user.save() that stores the wallet as it was read.
addDividend_saveUser_noCredit(db, t, rq) ==
  Finish([db EXCEPT !.users[rq.loc.investment.user].walletBalance =
                      rq.loc.user.walletBalance - rq.args.amount],
         rq, "ok")

\* await user.save().
addDividend_saveUser(db, t, rq) ==
  Finish([db EXCEPT !.users[rq.loc.investment.user].walletBalance =
                      rq.loc.user.walletBalance],
         rq, "ok")

addDividend_step(db, t, rq) ==
  CASE rq.pc = "start" -> addDividend_find(db, t, rq)
    [] rq.pc = "findProperty" -> addDividend_findProperty(db, t, rq)
    [] rq.pc = "saveInvestment" -> addDividend_save(db, t, rq)
    [] rq.pc = "createTransaction" -> addDividend_createTransaction(db, t, rq)
    [] rq.pc = "findUser" -> addDividend_findUser(db, t, rq)
    [] rq.pc = "saveUser" -> addDividend_saveUser(db, t, rq)

(* ------------------- PropertyService.updateFundingStatus --------------- *)
validStatusTransitions ==
  [Draft |-> {"Active", "Funding"}, Active |-> {"Funding", "Closed"},
   Funding |-> {"Closed", "Sold"}, Closed |-> {"Sold"}, Sold |-> {}]

\* args: [property, status, start, end]. await Property.findById, the owner
\* and transition checks, then the local status and window.
updateFundingStatus_find(db, t, rq) ==
  IF rq.args.property \notin DOMAIN db.properties THEN Finish(db, rq, "NotFound")
  ELSE
    LET property == db.properties[rq.args.property]
    IN IF property.owner # rq.actor THEN Finish(db, rq, "PermissionDenied")
       ELSE IF rq.args.status \notin validStatusTransitions[property.status]
            THEN Finish(db, rq, "InvalidState")
       ELSE Goto(db, rq, "saveProperty",
                 [property |-> IF rq.args.status = "Funding"
                               THEN [property EXCEPT
                                       !.status = rq.args.status,
                                       !.investmentWindowStart = OrElse(rq.args.start, t),
                                       !.investmentWindowEnd = rq.args.end]
                               ELSE [property EXCEPT !.status = rq.args.status]])

\* await property.save(): status, and the window when it was assigned.
updateFundingStatus_save(db, t, rq) ==
  LET id == rq.args.property
      p == rq.loc.property
  IN Finish(IF rq.args.status = "Funding"
            THEN [db EXCEPT !.properties[id].status = p.status,
                            !.properties[id].investmentWindowStart = p.investmentWindowStart,
                            !.properties[id].investmentWindowEnd = p.investmentWindowEnd]
            ELSE [db EXCEPT !.properties[id].status = p.status],
            rq, "ok")

updateFundingStatus_step(db, t, rq) ==
  CASE rq.pc = "start" -> updateFundingStatus_find(db, t, rq)
    [] rq.pc = "saveProperty" -> updateFundingStatus_save(db, t, rq)

(* ---------------------- PropertyService.updateProperty ----------------- *)
\* args: [property, fields, availableTokens, status]: an update document
\* that sets the fields named in `fields`.
\* await Property.findById, the owner check.
updateProperty_find(db, t, rq) ==
  IF rq.args.property \notin DOMAIN db.properties THEN Finish(db, rq, "NotFound")
  ELSE IF db.properties[rq.args.property].owner # rq.actor
  THEN Finish(db, rq, "PermissionDenied")
  ELSE Goto(db, rq, "findByIdAndUpdate", rq.loc)

\* await Property.findByIdAndUpdate(id, updateData, {runValidators: true}).
updateProperty_update(db, t, rq) ==
  LET id == rq.args.property
      a == rq.args
  IN Finish([db EXCEPT
               !.properties[id].availableTokens =
                  IF "availableTokens" \in a.fields THEN a.availableTokens ELSE @,
               !.properties[id].status =
                  IF "status" \in a.fields THEN a.status ELSE @],
            rq, "ok")

updateProperty_step(db, t, rq) ==
  CASE rq.pc = "start" -> updateProperty_find(db, t, rq)
    [] rq.pc = "findByIdAndUpdate" -> updateProperty_update(db, t, rq)

(* --------------------- PropertyService.tokenizeProperty ---------------- *)
\* args: [property, chainOk]. await Property.findById, the owner and
\* already-tokenized checks.
tokenizeProperty_find(db, t, rq) ==
  IF rq.args.property \notin DOMAIN db.properties THEN Finish(db, rq, "NotFound")
  ELSE
    LET property == db.properties[rq.args.property]
    IN IF property.owner # rq.actor THEN Finish(db, rq, "PermissionDenied")
       ELSE IF property.blockchainTokenAddress # Unset THEN Finish(db, rq, "InvalidState")
       ELSE Goto(db, rq, "createPropertyToken", rq.loc)

\* await blockchainService.createPropertyToken: the outside service answers
\* with a token address or throws (chainOk is its outcome).
tokenizeProperty_createToken(db, t, rq) ==
  IF rq.args.chainOk
  THEN Goto(db, rq, "saveProperty", [tokenAddress |-> TokenAddress])
  ELSE Finish(db, rq, "InternalError")

\* await property.save() with the token address.
tokenizeProperty_save(db, t, rq) ==
  Finish([db EXCEPT !.properties[rq.args.property].blockchainTokenAddress =
                      rq.loc.tokenAddress],
         rq, "ok")

tokenizeProperty_step(db, t, rq) ==
  CASE rq.pc = "start" -> tokenizeProperty_find(db, t, rq)
    [] rq.pc = "createPropertyToken" -> tokenizeProperty_createToken(db, t, rq)
    [] rq.pc = "saveProperty" -> tokenizeProperty_save(db, t, rq)

(* --------------------------- running a handler ------------------------- *)
\* The next database call of request rq and the code up to the following await.
Step(db, t, rq) ==
  CASE rq.op = "createInvestment" -> createInvestment_step(db, t, rq)
    [] rq.op = "createDeposit" -> createDeposit_step(db, t, rq)
    [] rq.op = "createWithdrawal" -> createWithdrawal_step(db, t, rq)
    [] rq.op = "confirmTransaction" -> confirmTransaction_step(db, t, rq)
    [] rq.op = "cancelTransaction" -> cancelTransaction_step(db, t, rq)
    [] rq.op = "processRefund" -> processRefund_step(db, t, rq)
    [] rq.op = "createSellOrder" -> createSellOrder_step(db, t, rq)
    [] rq.op = "cancelSellOrder" -> cancelSellOrder_step(db, t, rq)
    [] rq.op = "updateInvestmentValue" -> updateInvestmentValue_step(db, t, rq)
    [] rq.op = "addDividend" -> addDividend_step(db, t, rq)
    [] rq.op = "updateFundingStatus" -> updateFundingStatus_step(db, t, rq)
    [] rq.op = "updateProperty" -> updateProperty_step(db, t, rq)
    [] rq.op = "tokenizeProperty" -> tokenizeProperty_step(db, t, rq)

\* A handler run from its current position to its return with no other
\* request's step in between.
RECURSIVE Run(_, _, _)
Run(db, t, rq) ==
  IF rq.pc = "done" THEN [db |-> db, rq |-> rq]
  ELSE LET s == Step(db, t, rq) IN Run(s.db, t, s.rq)

(* ----------------------- the service-level handlers ------------------- *)
\* InvestmentService.updateInvestmentValue: await Property.findById, then the
\* owner check, with no exemption for a role.
service_updateInvestmentValue_findProperty(db, t, rq) ==
  IF rq.loc.investment.property \notin DOMAIN db.properties
  THEN Finish(db, rq, "NotFound")
  ELSE IF db.properties[rq.loc.investment.property].owner # rq.actor
  THEN Finish(db, rq, "PermissionDenied")
  ELSE Goto(db, rq, "saveInvestment", rq.loc)

\* InvestmentService.addDividend: await Property.findById, then the owner
\* check, with no exemption for a role.
service_addDividend_findProperty(db, t, rq) ==
  IF rq.loc.investment.property \notin DOMAIN db.properties
  THEN Finish(db, rq, "NotFound")
  ELSE IF db.properties[rq.loc.investment.property].owner # rq.actor
  THEN Finish(db, rq, "PermissionDenied")
  ELSE Goto(db, rq, "saveInvestment", rq.loc)

\* One step of the service-level copy of a handler.  The copies differ from
\* the handlers the routes run in their permission checks only; every other
\* step is the same code.
service_Step(db, t, rq) ==
  CASE rq.op = "confirmTransaction" /\ rq.pc = "start" ->
         service_confirmTransaction_find(db, t, rq)
    [] rq.op = "cancelTransaction" /\ rq.pc = "start" ->
         service_cancelTransaction_find(db, t, rq)
    [] rq.op = "updateInvestmentValue" /\ rq.pc = "findProperty" ->
         service_updateInvestmentValue_findProperty(db, t, rq)
    [] rq.op = "addDividend" /\ rq.pc = "findProperty" ->
         service_addDividend_findProperty(db, t, rq)
    [] OTHER -> Step(db, t, rq)

\* A service-level handler run from its current position to its return.
RECURSIVE service_Run(_, _, _)
service_Run(db, t, rq) ==
  IF rq.pc = "done" THEN [db |-> db, rq |-> rq]
  ELSE LET s == service_Step(db, t, rq) IN service_Run(s.db, t, s.rq)

(* ------------------------------- requests ------------------------------ *)
Slots == {1, 2}

PropertyStatuses == {"Draft", "Active", "Funding", "Closed", "Sold"}
PurchaseTokens == {0, 1, TotalTokens, TotalTokens + 1}
PurchaseAmounts == {0, 1, MinInvestment}
WalletAmounts == {0, 2 * MinInvestment}
DividendAmounts == {1}
SellQuantities == {0, TotalTokens - 1, TotalTokens + 1}
WindowStarts == {Unset, MaxTime}
WindowEnds == {Unset, 1}
Hashes == {Unset, 1}
TxIds == 1..(Len(transactions) + 1)
InvIds == 1..(Len(investments) + 1)

\* The requests the model sends.  Where a handler rejects every request of
\* a user who is not the owner, one such request stands for all of them.
Req_createInvestment ==
  {NewReq("createInvestment", u, [property |-> p, tokensPurchased |-> n, investmentAmount |-> a]) :
     u \in Investors, p \in Props, n \in PurchaseTokens, a \in PurchaseAmounts}
Req_createDeposit ==
  {NewReq("createDeposit", u, [amount |-> a]) : u \in Investors, a \in WalletAmounts}
Req_createWithdrawal ==
  {NewReq("createWithdrawal", u, [amount |-> a]) : u \in Investors, a \in WalletAmounts}
Req_confirmTransaction ==
  {NewReq("confirmTransaction", u, [id |-> i, hash |-> h]) :
     u \in Admins, i \in TxIds, h \in Hashes}
Req_cancelTransaction ==
  {NewReq("cancelTransaction", u, [id |-> i]) : u \in Investors, i \in TxIds}
  \cup {NewReq("cancelTransaction", u, [id |-> 1]) : u \in Users \ Investors}
Req_processRefund ==
  {NewReq("processRefund", u, [id |-> i]) : u \in Admins, i \in TxIds}
Req_createSellOrder ==
  {NewReq("createSellOrder", u, [id |-> i, quantity |-> q, price |-> TokenPrice]) :
     u \in Investors, i \in InvIds, q \in SellQuantities}
  \cup {NewReq("createSellOrder", u, [id |-> 1, quantity |-> 1, price |-> TokenPrice]) :
          u \in Users \ Investors}
Req_cancelSellOrder ==
  {NewReq("cancelSellOrder", u, [id |-> i, order |-> o]) :
     u \in Investors, i \in InvIds, o \in 1..MaxSellOrders}
  \cup {NewReq("cancelSellOrder", u, [id |-> 1, order |-> 1]) : u \in Users \ Investors}
Req_updateInvestmentValue ==
  {NewReq("updateInvestmentValue", Owner, [id |-> i, value |-> 1]) : i \in InvIds}
  \cup {NewReq("updateInvestmentValue", u, [id |-> 1, value |-> 1]) : u \in Users \ {Owner}}
\* The route validates nothing: a body may come without an amount (Unset).
Req_addDividend ==
  {NewReq("addDividend", Owner, [id |-> i, amount |-> a, type |-> "Rental"]) :
     i \in InvIds, a \in DividendAmounts \cup {Unset}}
  \cup {NewReq("addDividend", u, [id |-> 1, amount |-> a, type |-> "Rental"]) :
          u \in Users \ {Owner}, a \in DividendAmounts}
Req_updateFundingStatus ==
  {NewReq("updateFundingStatus", Owner, [property |-> p, status |-> "Funding", start |-> b, end |-> e]) :
     p \in Props, b \in WindowStarts, e \in WindowEnds}
  \cup
  {NewReq("updateFundingStatus", Owner, [property |-> p, status |-> st, start |-> Unset, end |-> Unset]) :
     p \in Props, st \in PropertyStatuses \ {"Funding"}}
  \cup
  {NewReq("updateFundingStatus", u, [property |-> p, status |-> "Funding", start |-> Unset, end |-> Unset]) :
     u \in Users \ {Owner}, p \in Props}
\* The update document is the request body: the schema puts no bound on
\* availableTokens, so a body may set it above totalTokens.
Req_updateProperty ==
  {NewReq("updateProperty", u, [property |-> p, fields |-> {"availableTokens"},
                                availableTokens |-> TotalTokens, status |-> ""]) :
     u \in Users, p \in Props}
  \cup
  {NewReq("updateProperty", Owner, [property |-> p, fields |-> {"availableTokens"},
                                    availableTokens |-> 2 * TotalTokens + 1, status |-> ""]) :
     p \in Props}
  \cup
  {NewReq("updateProperty", Owner, [property |-> p, fields |-> {"status"},
                                    availableTokens |-> 0, status |-> "Draft"]) :
     p \in Props}

\* What the caller sees: which operation answered, and how.
Response(rq) == [op |-> rq.op, result |-> rq.result]

RECURSIVE CountSubdocs(_, _)
CountSubdocs(invs, field) ==
  IF invs = <<>> THEN 0
  ELSE Len(Head(invs)[field]) + CountSubdocs(Tail(invs), field)

\* The collections stay within the model's bounds.
WithinBounds(db) ==
  /\ Len(db.transactions) <= MaxTransactions
  /\ Len(db.investments) <= MaxInvestments
  /\ CountSubdocs(db.investments, "sellOrders") <= MaxSellOrders
  /\ CountSubdocs(db.investments, "dividends") <= MaxDividends

SetDB(db) ==
  /\ users' = db.users
  /\ properties' = db.properties
  /\ investments' = db.investments
  /\ transactions' = db.transactions

(* -------------------------------- Init --------------------------------- *)
\* A property as PropertyService.createProperty stores it: every token
\* available, the schema's defaults for the rest.
NewProperty(owner) ==
  [owner |-> owner, totalTokens |-> TotalTokens, availableTokens |-> TotalTokens,
   tokenPrice |-> TokenPrice, minInvestment |-> MinInvestment,
   fundingPercentage |-> Frac(0, 1), status |-> "Draft",
   investmentWindowStart |-> Unset, investmentWindowEnd |-> Unset,
   blockchainTokenAddress |-> Unset]

NoResponse == [op |-> "none", result |-> "none"]

Init ==
  /\ users = [u \in Users |-> [walletBalance |-> 0, totalInvestments |-> 0]]
  /\ properties = [p \in Props |-> NewProperty(Owner)]
  /\ investments = <<>>
  /\ transactions = <<>>
  /\ now = 1
  /\ reqs = [s \in Slots |-> Idle]
  /\ response = NoResponse
  /\ served = 0

(* ------------------- requests served one after the other --------------- *)
\* No handler is between two of its awaits.
NoneInFlight == \A s \in Slots : reqs[s] = Idle

\* The whole handler for request rq, from its first line to its response.
\* `served` counts the requests that changed the database.
Serve(rq) ==
  /\ served < MaxServed
  /\ \E out \in {Run(DB, now, rq)} :
       /\ WithinBounds(out.db)
       /\ SetDB(out.db)
       /\ response' = Response(out.rq)
       /\ served' = IF out.db = DB THEN served ELSE served + 1
  /\ UNCHANGED <<now, reqs>>

CreateInvestment ==
  /\ NoneInFlight
  /\ \E rq \in Req_createInvestment : Serve(rq)
CreateDeposit ==
  /\ NoneInFlight
  /\ \E rq \in Req_createDeposit : Serve(rq)
CreateWithdrawal ==
  /\ NoneInFlight
  /\ \E rq \in Req_createWithdrawal : Serve(rq)
ConfirmTransaction ==
  /\ NoneInFlight
  /\ \E rq \in Req_confirmTransaction : Serve(rq)
CancelTransaction ==
  /\ NoneInFlight
  /\ \E rq \in Req_cancelTransaction : Serve(rq)
ProcessRefund ==
  /\ NoneInFlight
  /\ \E rq \in Req_processRefund : Serve(rq)
CreateSellOrder ==
  /\ NoneInFlight
  /\ \E rq \in Req_createSellOrder : Serve(rq)
CancelSellOrder ==
  /\ NoneInFlight
  /\ \E rq \in Req_cancelSellOrder : Serve(rq)
UpdateInvestmentValue ==
  /\ NoneInFlight
  /\ \E rq \in Req_updateInvestmentValue : Serve(rq)
AddDividend ==
  /\ NoneInFlight
  /\ \E rq \in Req_addDividend : Serve(rq)
UpdateFundingStatus ==
  /\ NoneInFlight
  /\ \E rq \in Req_updateFundingStatus : Serve(rq)
UpdateProperty ==
  /\ NoneInFlight
  /\ \E rq \in Req_updateProperty : Serve(rq)

\* Time passes.
Tick ==
  /\ now < MaxTime
  /\ now' = now + 1
  /\ UNCHANGED <<users, properties, investments, transactions, reqs, response, served>>

Next ==
  \/ CreateInvestment
  \/ CreateDeposit
  \/ CreateWithdrawal
  \/ ConfirmTransaction
  \/ CancelTransaction
  \/ ProcessRefund
  \/ CreateSellOrder
  \/ CancelSellOrder
  \/ UpdateInvestmentValue
  \/ AddDividend
  \/ UpdateFundingStatus
  \/ UpdateProperty
  \/ Tick

Spec == Init /\ [][Next]_vars

(* ---------------------- requests that interleave ----------------------- *)
\* Node runs one handler until its next await, then any handler whose
\* database call has returned: two requests in flight interleave at the
\* database calls.
Requests ==
  Req_createInvestment \cup Req_createDeposit \cup Req_createWithdrawal
  \cup Req_confirmTransaction \cup Req_cancelTransaction \cup Req_processRefund
  \cup Req_createSellOrder \cup Req_cancelSellOrder \cup Req_updateInvestmentValue
  \cup Req_addDividend \cup Req_updateFundingStatus \cup Req_updateProperty

\* The database after an investor's deposit was confirmed and the owner
\* opened the property for funding.
InitConc ==
  /\ users = [u \in Users |->
                [walletBalance |-> IF u \in Investors THEN 2 * MinInvestment ELSE 0,
                 totalInvestments |-> 0]]
  /\ properties = [p \in Props |->
                     [NewProperty(Owner) EXCEPT !.status = "Funding",
                                                !.investmentWindowStart = 1]]
  /\ investments = <<>>
  /\ transactions = <<[NewTransaction(CHOOSE u \in Investors : TRUE, "Deposit", 2 * MinInvestment, "Pending",
                                      Unset, Unset, FALSE, Unset)
                         EXCEPT !.status = "Completed", !.completedAt = TRUE]>>
  /\ now = 1
  /\ reqs = [s \in Slots |-> Idle]
  /\ response = NoResponse
  /\ served = 0

\* The database of InitConc as one record.
FundedDB ==
  [users |-> [u \in Users |->
                [walletBalance |-> IF u \in Investors THEN 2 * MinInvestment ELSE 0,
                 totalInvestments |-> 0]],
   properties |-> [p \in Props |->
                     [NewProperty(Owner) EXCEPT !.status = "Funding",
                                                !.investmentWindowStart = 1]],
   investments |-> <<>>,
   transactions |-> <<[NewTransaction(CHOOSE u \in Investors : TRUE, "Deposit",
                                      2 * MinInvestment, "Pending",
                                      Unset, Unset, FALSE, Unset)
                         EXCEPT !.status = "Completed", !.completedAt = TRUE]>>]

\* The database after the investor then bought tokens of the open property:
\* the purchase handler run on the database of InitConc.
HeldDB ==
  Run([users |-> [u \in Users |->
                    [walletBalance |-> IF u \in Investors THEN 2 * MinInvestment ELSE 0,
                     totalInvestments |-> 0]],
       properties |-> [p \in Props |->
                         [NewProperty(Owner) EXCEPT !.status = "Funding",
                                                    !.investmentWindowStart = 1]],
       investments |-> <<>>,
       transactions |-> <<[NewTransaction(CHOOSE u \in Investors : TRUE, "Deposit",
                                          2 * MinInvestment, "Pending",
                                          Unset, Unset, FALSE, Unset)
                             EXCEPT !.status = "Completed", !.completedAt = TRUE]>>],
      1,
      NewReq("createInvestment", CHOOSE u \in Investors : TRUE,
             [property |-> CHOOSE p \in Props : TRUE,
              tokensPurchased |-> TotalTokens, investmentAmount |-> 0])).db

\* The investor holds a position. Two of the database-changing requests that
\* built it count against the budget, which leaves four from here on.
InitHeld ==
  /\ users = HeldDB.users
  /\ properties = HeldDB.properties
  /\ investments = HeldDB.investments
  /\ transactions = HeldDB.transactions
  /\ now = 1
  /\ reqs = [s \in Slots |-> Idle]
  /\ response = NoResponse
  /\ served = 2

\* Requests served one after the other on that database.
SpecHeld == InitHeld /\ [][Next]_vars

(* ------------------------- a tokenized property ------------------------ *)
Req_tokenizeProperty ==
  {NewReq("tokenizeProperty", u, [property |-> p, chainOk |-> ok]) :
     u \in {Owner} \cup Investors, p \in Props, ok \in BOOLEAN}

TokenizeProperty ==
  /\ NoneInFlight
  /\ \E rq \in Req_tokenizeProperty : Serve(rq)

\* The funded database of InitConc; two database-changing requests that
\* built it count against the budget.
InitFunded ==
  /\ users = FundedDB.users
  /\ properties = FundedDB.properties
  /\ investments = FundedDB.investments
  /\ transactions = FundedDB.transactions
  /\ now = 1
  /\ reqs = [s \in Slots |-> Idle]
  /\ response = NoResponse
  /\ served = 2

NextTokenized ==
  \/ Next
  \/ TokenizeProperty

\* Requests served one after the other on a property that its owner may
\* tokenize before or after purchases.
SpecTokenized == InitFunded /\ [][NextTokenized]_vars

\* A request arrives and takes the first free slot.
Begin ==
  /\ served < MaxStarted
  /\ \E s \in Slots, rq \in Requests :
       /\ reqs[s] = Idle
       /\ \A r \in Slots : r < s => reqs[r] # Idle
       /\ reqs' = [reqs EXCEPT ![s] = rq]
  /\ served' = served + 1
  /\ UNCHANGED <<users, properties, investments, transactions, now, response>>

\* The handler in slot s runs from one await to the next.
StepReq ==
  /\ \E s \in Slots :
       /\ reqs[s] # Idle
       /\ reqs[s].pc # "done"
       /\ \E out \in {Step(DB, now, reqs[s])} :
            /\ WithinBounds(out.db)
            /\ SetDB(out.db)
            /\ reqs' = [reqs EXCEPT ![s] = out.rq]
  /\ UNCHANGED <<now, response, served>>

\* The handler in slot s has returned or thrown: its response is sent.
Respond ==
  /\ \E s \in Slots :
       /\ reqs[s] # Idle
       /\ reqs[s].pc = "done"
       /\ response' = Response(reqs[s])
       /\ reqs' = [reqs EXCEPT ![s] = Idle]
  /\ UNCHANGED <<users, properties, investments, transactions, now, served>>

NextConc ==
  \/ Begin
  \/ StepReq
  \/ Respond
  \/ Tick

SpecConc == InitConc /\ [][NextConc]_vars

(* ----------------- requests that meet a pending entry ------------------ *)
\* The database of InitConc after the investor then asked for a deposit: the
\* createDeposit handler run on it leaves a second, Pending, journal entry.
PendingDB ==
  Run(FundedDB, 1,
      NewReq("createDeposit", CHOOSE u \in Investors : TRUE,
             [amount |-> 2 * MinInvestment])).db

\* The journal entry that is Pending in PendingDB.
PendingId == Len(PendingDB.transactions)

InitPending ==
  /\ users = PendingDB.users
  /\ properties = PendingDB.properties
  /\ investments = PendingDB.investments
  /\ transactions = PendingDB.transactions
  /\ now = 1
  /\ reqs = [s \in Slots |-> Idle]
  /\ response = NoResponse
  /\ served = 0

\* Two requests that interleave at their awaits on that database.
SpecPending == InitPending /\ [][NextConc]_vars

(* ------------------------------ properties ----------------------------- *)
\* This step serves request rq from its first line to its response.
Served(rq) == NoneInFlight /\ Serve(rq)

\* The tokens held by the Active positions in property p.
RECURSIVE ActiveTokens(_, _)
ActiveTokens(invs, p) ==
  IF invs = <<>> THEN 0
  ELSE (IF Head(invs).property = p /\ Head(invs).status = "Active"
        THEN Head(invs).tokensPurchased ELSE 0) + ActiveTokens(Tail(invs), p)

\* The tokens offered by the Open orders of one position.
RECURSIVE OpenQuantity(_)
OpenQuantity(orders) ==
  IF orders = <<>> THEN 0
  ELSE (IF Head(orders).status = "Open" THEN Head(orders).quantity ELSE 0)
       + OpenQuantity(Tail(orders))

\* C1: in every reachable state, for every property, availableTokens plus
\* the tokensPurchased of the Active positions in it equals totalTokens.
C1_TokenConservation ==
  \A p \in Props :
    properties[p].availableTokens + ActiveTokens(investments, p) = properties[p].totalTokens

\* C2: in every reachable state every user's wallet balance is >= 0.
C2_WalletNonNegative == \A u \in Users : users[u].walletBalance >= 0

\* Both slots hold a finished purchase request for all TotalTokens tokens of
\* the property, and no other request has run since InitConc, where
\* availableTokens = TotalTokens.
BothPurchasesDone ==
  /\ served = Cardinality(Slots)
  /\ \A s \in Slots :
       /\ reqs[s] # Idle
       /\ reqs[s].op = "createInvestment"
       /\ reqs[s].pc = "done"
       /\ reqs[s].args.tokensPurchased = TotalTokens
       /\ reqs[s].args.investmentAmount = 0

\* C3: when availableTokens = N and two purchases of N tokens each run
\* concurrently, exactly one succeeds and leaves availableTokens = 0, the
\* other fails with InsufficientInventory, and availableTokens is never
\* negative.
C3_OneOfTwoPurchasesSucceeds ==
  /\ \A p \in Props : properties[p].availableTokens >= 0
  /\ BothPurchasesDone =>
       /\ \E s \in Slots :
            /\ reqs[s].result = "ok"
            /\ \A r \in Slots \ {s} : reqs[r].result = "InsufficientInventory"
       /\ \A p \in Props : properties[p].availableTokens = 0

\* Both purchases succeeded: two positions of TotalTokens tokens each were
\* sold out of TotalTokens.
C3_BothPurchasesSucceeded ==
  /\ BothPurchasesDone
  /\ \A s \in Slots : reqs[s].result = "ok"
  /\ Len(investments) = Cardinality(Slots)
  /\ \A i \in Idx(investments) : investments[i].tokensPurchased = TotalTokens

\* The wallet after entry e's delta is applied once.
WalletAfter(e) ==
  [users EXCEPT ![e.user].walletBalance =
     IF e.type = "Deposit" THEN @ + e.amount ELSE @ - e.amount]

\* C4: confirmTransaction called twice on the same entry applies the wallet
\* delta exactly once: the call that confirms a Pending Deposit or Withdrawal
\* applies the delta and completes the entry, and a call on an entry that is
\* already Completed is rejected with InvalidState and changes neither the
\* wallets nor the journal.
C4_ConfirmTwiceAppliesOnce ==
  [][response'.op = "confirmTransaction" =>
       \A rq \in Req_confirmTransaction :
         (Served(rq) /\ rq.args.id \in Idx(transactions)) =>
           LET e == transactions[rq.args.id]
           IN /\ (/\ e.status = "Pending"
                  /\ e.type \in {"Deposit", "Withdrawal"}
                  /\ response'.result = "ok") =>
                    /\ transactions'[rq.args.id].status = "Completed"
                    /\ users' = WalletAfter(e)
              /\ e.status = "Completed" =>
                    /\ response'.result = "InvalidState"
                    /\ UNCHANGED <<users, transactions>>]_vars

\* A deposit was confirmed, credited once, and a second confirmation of it
\* was rejected.
C4_SecondConfirmRejected ==
  /\ response = [op |-> "confirmTransaction", result |-> "InvalidState"]
  /\ Len(transactions) = 1
  /\ transactions[1].type = "Deposit"
  /\ transactions[1].status = "Completed"
  /\ users[transactions[1].user].walletBalance = transactions[1].amount

AllowedEdges ==
  {<<"Pending", "Completed">>, <<"Pending", "Failed">>, <<"Completed", "Refunded">>}

\* C5: a journal entry's status changes only along Pending->Completed,
\* Pending->Failed and Completed->Refunded; Failed and Refunded entries never
\* change status again.
C5_StatusEdges ==
  [][\A i \in Idx(transactions) :
       transactions'[i].status # transactions[i].status =>
         <<transactions[i].status, transactions'[i].status>> \in AllowedEdges]_vars

\* C6: confirmTransaction on an entry that is not a Pending Deposit or
\* Withdrawal is rejected with InvalidState and changes neither the entry nor
\* any wallet.
C6_ConfirmOnlyPendingWalletEntries ==
  [][response'.op = "confirmTransaction" =>
       \A rq \in Req_confirmTransaction :
         (Served(rq) /\ rq.args.id \in Idx(transactions)) =>
           LET e == transactions[rq.args.id]
           IN ~(e.status = "Pending" /\ e.type \in {"Deposit", "Withdrawal"}) =>
                /\ response'.result = "InvalidState"
                /\ UNCHANGED <<users, transactions>>]_vars

\* C7: confirmTransaction on a Pending Withdrawal whose amount exceeds the
\* owner's wallet balance fails with InsufficientFunds, leaves the entry
\* Pending and the wallet unchanged.
C7_WithdrawalNeedsBalanceAtConfirmation ==
  [][response'.op = "confirmTransaction" =>
       \A rq \in Req_confirmTransaction :
         (Served(rq) /\ rq.args.id \in Idx(transactions)) =>
           LET e == transactions[rq.args.id]
           IN (/\ e.status = "Pending"
               /\ e.type = "Withdrawal"
               /\ e.amount > users[e.user].walletBalance) =>
                /\ response'.result = "InsufficientFunds"
                /\ UNCHANGED <<users, transactions>>]_vars

\* C8: in every reachable state, for every position, the quantities of its
\* Open sell orders sum to at most tokensPurchased.
C8_OpenOrdersWithinPosition ==
  \A i \in Idx(investments) :
    OpenQuantity(investments[i].sellOrders) <= investments[i].tokensPurchased

\* The token count and the cash amount of purchase request rq: the one not
\* given is derived from the other and the token price.
PurchaseTokensOf(rq) ==
  IF rq.args.tokensPurchased # 0 THEN rq.args.tokensPurchased
  ELSE rq.args.investmentAmount \div properties[rq.args.property].tokenPrice
PurchaseAmountOf(rq) ==
  IF rq.args.investmentAmount # 0 THEN rq.args.investmentAmount
  ELSE PurchaseTokensOf(rq) * properties[rq.args.property].tokenPrice

\* The first precondition of a purchase that fails, in the stated order.
FirstFailure(rq) ==
  LET p == properties[rq.args.property]
      inWindow == /\ (p.investmentWindowStart = Unset \/ now >= p.investmentWindowStart)
                  /\ (p.investmentWindowEnd = Unset \/ now <= p.investmentWindowEnd)
  IN IF ~(p.status = "Funding" /\ inWindow) THEN "InvalidState"
     ELSE IF ~(PurchaseTokensOf(rq) >= 1) THEN "ValidationError"
     ELSE IF ~(PurchaseTokensOf(rq) <= p.availableTokens) THEN "InsufficientInventory"
     ELSE IF ~(PurchaseAmountOf(rq) >= p.minInvestment) THEN "ValidationError"
     ELSE IF ~(users[rq.actor].walletBalance >= PurchaseAmountOf(rq)) THEN "InsufficientFunds"
     ELSE "none"

\* C9: a purchase reports the first failing precondition in the order
\* Funding-and-in-window (InvalidState), tokens >= 1 (ValidationError),
\* tokens <= availableTokens (InsufficientInventory), amount >= minInvestment
\* (ValidationError), wallet >= amount (InsufficientFunds); a failed purchase
\* changes no position, inventory, wallet or journal state.
C9_PurchasePreconditionOrder ==
  [][response'.op = "createInvestment" =>
       \A rq \in Req_createInvestment :
         (FirstFailure(rq) # "none" /\ Served(rq)) =>
           /\ response'.result = FirstFailure(rq)
           /\ UNCHANGED <<users, properties, investments, transactions>>]_vars

\* A purchase passed the state, token, inventory and minimum checks and was
\* rejected by the last one, the wallet check.
C9_RejectedByWalletCheck ==
  /\ response = [op |-> "createInvestment", result |-> "InsufficientFunds"]
  /\ \E p \in Props : properties[p].status = "Funding" /\ properties[p].availableTokens > 0
  /\ \A u \in Investors : users[u].walletBalance < MinInvestment
  /\ investments = <<>>

\* C10: a successful purchase of t tokens for amount a creates one Active
\* position with tokensPurchased = t and currentValue = a, decreases
\* availableTokens by t, the buyer's wallet by a, increases the buyer's
\* cumulative invested amount by a, and appends exactly one journal entry of
\* type Investment Purchase, status Completed, amount a, referencing the new
\* position.
C10_PurchaseEffects ==
  [][(response'.op = "createInvestment" /\ response'.result = "ok") =>
       \A rq \in Req_createInvestment :
         Served(rq) =>
           LET tk == PurchaseTokensOf(rq)
               a == PurchaseAmountOf(rq)
               p == rq.args.property
               u == rq.actor
               n == Len(investments) + 1
               m == Len(transactions) + 1
           IN /\ Len(investments') = n
              /\ SubSeq(investments', 1, n - 1) = investments
              /\ investments'[n].user = u
              /\ investments'[n].property = p
              /\ investments'[n].status = "Active"
              /\ investments'[n].tokensPurchased = tk
              /\ investments'[n].investmentAmount = a
              /\ investments'[n].currentValue = a
              /\ properties'[p].availableTokens = properties[p].availableTokens - tk
              /\ users' = [users EXCEPT ![u].walletBalance = @ - a,
                                        ![u].totalInvestments = @ + a]
              /\ Len(transactions') = m
              /\ SubSeq(transactions', 1, m - 1) = transactions
              /\ transactions'[m].user = u
              /\ transactions'[m].type = "Investment Purchase"
              /\ transactions'[m].status = "Completed"
              /\ transactions'[m].amount = a
              /\ transactions'[m].relatedEntity =
                   [entityType |-> "Investment", entityId |-> n]]_vars

\* The first purchase succeeded: one Active position, paid from the wallet,
\* recorded in the journal after the deposit that funded it.
C10_PurchaseSucceeded ==
  /\ response = [op |-> "createInvestment", result |-> "ok"]
  /\ Len(investments) = 1
  /\ investments[1].status = "Active"
  /\ Len(transactions) = 2
  /\ transactions[2].type = "Investment Purchase"
  /\ users[investments[1].user].totalInvestments = investments[1].investmentAmount
  /\ \E p \in Props :
       properties[p].availableTokens = TotalTokens - investments[1].tokensPurchased

\* C11: a purchase that reports an error leaves no mutation committed: no
\* position, inventory, wallet or journal change remains from it.
C11_FailedPurchaseCommitsNothing ==
  [][(response'.op = "createInvestment" /\ response'.result # "ok") =>
       UNCHANGED <<users, properties, investments, transactions>>]_vars

\* The type of the entry that reverses an entry of type ty.
InverseType(ty) == IF ty = "Deposit" THEN "Withdrawal" ELSE "Investment Sale"

\* Entry e can be refunded: Completed, and a Deposit or an Investment Purchase.
Refundable(e) ==
  e.status = "Completed" /\ e.type \in {"Deposit", "Investment Purchase"}

\* C12: processRefund succeeds only on a Completed Deposit or Investment
\* Purchase; on any other entry it is rejected with InvalidState and changes
\* nothing.  On success the original becomes Refunded, exactly one Completed
\* entry of the inverse type with the same amount and a back-reference is
\* appended, and a refunded Investment Purchase credits its owner's wallet
\* with the original amount.
C12_RefundEffects ==
  [][response'.op = "processRefund" =>
       \A rq \in Req_processRefund :
         (Served(rq) /\ rq.args.id \in Idx(transactions)) =>
           LET id == rq.args.id
               e == transactions[id]
               m == Len(transactions) + 1
           IN /\ ~Refundable(e) =>
                   /\ response'.result = "InvalidState"
                   /\ UNCHANGED <<users, properties, investments, transactions>>
              /\ response'.result = "ok" =>
                   /\ Refundable(e)
                   /\ Len(transactions') = m
                   /\ transactions'[id] = [e EXCEPT !.status = "Refunded"]
                   /\ \A j \in Idx(transactions) \ {id} : transactions'[j] = transactions[j]
                   /\ transactions'[m].status = "Completed"
                   /\ transactions'[m].type = InverseType(e.type)
                   /\ transactions'[m].amount = e.amount
                   /\ transactions'[m].user = e.user
                   /\ transactions'[m].refundedTransaction = id
                   /\ e.type = "Investment Purchase" =>
                        users' = [users EXCEPT ![e.user].walletBalance = @ + e.amount]]_vars

\* An Investment Purchase was refunded: it is Refunded and the last entry is
\* the Investment Sale that refers back to it.
C12_PurchaseRefunded ==
  /\ response = [op |-> "processRefund", result |-> "ok"]
  /\ \E i \in Idx(transactions) :
       /\ transactions[i].type = "Investment Purchase"
       /\ transactions[i].status = "Refunded"
       /\ transactions[Len(transactions)].type = "Investment Sale"
       /\ transactions[Len(transactions)].refundedTransaction = i
       /\ transactions[Len(transactions)].amount = transactions[i].amount

\* Entry id was refunded before: a refund entry refers back to it.
RefundedBefore(id) ==
  \E j \in Idx(transactions) : transactions[j].refundedTransaction = id

\* C13: no wallet effect is applied twice for one journal entry: a
\* confirmation of an entry that was confirmed before (its completedAt is set)
\* changes no wallet, and a refund of an entry that was refunded before
\* changes no wallet and appends no second refund entry.
C13_EffectsAppliedOnce ==
  [][/\ response'.op = "confirmTransaction" =>
          \A rq \in Req_confirmTransaction :
            (/\ Served(rq)
             /\ rq.args.id \in Idx(transactions)
             /\ transactions[rq.args.id].completedAt) => users' = users
     /\ response'.op = "processRefund" =>
          \A rq \in Req_processRefund :
            (/\ Served(rq)
             /\ rq.args.id \in Idx(transactions)
             /\ RefundedBefore(rq.args.id)) =>
                 /\ users' = users
                 /\ Len(transactions') = Len(transactions)]_vars

\* C14: a successful addDividend appends exactly one dividend to the position,
\* credits the wallet of the position's owner by the dividend amount, and
\* appends exactly one journal entry of type Dividend, status Completed, with
\* that amount, referring to the position; nothing else changes.
C14_DividendEffects ==
  [][(response'.op = "addDividend" /\ response'.result = "ok") =>
       \A rq \in Req_addDividend :
         Served(rq) =>
           LET id == rq.args.id
               investment == investments[id]
               m == Len(transactions) + 1
           IN /\ id \in Idx(investments)
              /\ Len(investments'[id].dividends) = Len(investment.dividends) + 1
              /\ investments' = [investments EXCEPT ![id].dividends = investments'[id].dividends]
              /\ users' = [users EXCEPT ![investment.user].walletBalance = @ + rq.args.amount]
              /\ Len(transactions') = m
              /\ \A j \in Idx(transactions) : transactions'[j] = transactions[j]
              /\ transactions'[m].type = "Dividend"
              /\ transactions'[m].status = "Completed"
              /\ transactions'[m].amount = rq.args.amount
              /\ transactions'[m].user = investment.user
              /\ transactions'[m].relatedEntity = [entityType |-> "Investment", entityId |-> id]
              /\ properties' = properties]_vars

C14_DividendPaid ==
  /\ response = [op |-> "addDividend", result |-> "ok"]
  /\ \E i \in Idx(investments) :
       /\ Len(investments[i].dividends) = 1
       /\ transactions[Len(transactions)].type = "Dividend"
       /\ transactions[Len(transactions)].relatedEntity.entityId = i

\* C15: cancelTransaction moves an entry to Failed only when the entry is
\* Pending and belongs to the actor; on an entry of the actor in any other
\* status it answers InvalidState and changes nothing; a call by another user
\* is rejected and changes nothing; and no cancelTransaction step changes a
\* wallet balance or the token inventory.
C15_CancelTransaction ==
  [][response'.op = "cancelTransaction" =>
       /\ UNCHANGED <<users, properties, investments>>
       /\ \A rq \in Req_cancelTransaction :
            (Served(rq) /\ rq.args.id \in Idx(transactions)) =>
              LET id == rq.args.id
                  e == transactions[id]
              IN IF e.user = rq.actor /\ e.status = "Pending"
                 THEN /\ response'.result = "ok"
                      /\ transactions' = [transactions EXCEPT ![id].status = "Failed"]
                 ELSE /\ transactions' = transactions
                      /\ response'.result =
                           IF e.user # rq.actor THEN "PermissionDenied" ELSE "InvalidState"]_vars

\* C16: a sell order is created Open; the status of an order changes only
\* from Open to Filled or from Open to Cancelled; cancelSellOrder succeeds
\* only on an Open order and answers InvalidState on a Filled or Cancelled
\* one, changing nothing; and no sell-order step changes a wallet balance or
\* the token inventory.
C16_SellOrderLifecycle ==
  [][/\ \A i \in Idx(investments') :
          LET old == IF i \in Idx(investments) THEN investments[i].sellOrders ELSE <<>>
              new == investments'[i].sellOrders
          IN /\ Len(new) >= Len(old)
             /\ \A k \in Idx(new) :
                  IF k \in Idx(old)
                  THEN \/ new[k].status = old[k].status
                       \/ /\ old[k].status = "Open"
                          /\ new[k].status \in {"Filled", "Cancelled"}
                  ELSE new[k].status = "Open"
     /\ response'.op \in {"createSellOrder", "cancelSellOrder"} =>
          UNCHANGED <<users, properties, transactions>>
     /\ response'.op = "cancelSellOrder" =>
          \A rq \in Req_cancelSellOrder :
            (/\ Served(rq)
             /\ rq.args.id \in Idx(investments)
             /\ rq.args.order \in Idx(investments[rq.args.id].sellOrders)
             /\ investments[rq.args.id].user = rq.actor) =>
                IF investments[rq.args.id].sellOrders[rq.args.order].status = "Open"
                THEN /\ response'.result = "ok"
                     /\ investments' =
                          [investments EXCEPT
                             ![rq.args.id].sellOrders[rq.args.order].status = "Cancelled"]
                ELSE /\ response'.result = "InvalidState"
                     /\ investments' = investments]_vars

C16_CancelRejectedNotOpen ==
  /\ response = [op |-> "cancelSellOrder", result |-> "InvalidState"]
  /\ \E i \in Idx(investments) : \E k \in Idx(investments[i].sellOrders) :
       investments[i].sellOrders[k].status = "Cancelled"

\* The lifecycle edges of a property.
LifecycleEdges ==
  {<<"Draft", "Active">>, <<"Draft", "Funding">>, <<"Active", "Funding">>,
   <<"Active", "Closed">>, <<"Funding", "Closed">>, <<"Funding", "Sold">>,
   <<"Closed", "Sold">>}

\* C17: the status of a property changes only along Draft -> {Active,
\* Funding}, Active -> {Funding, Closed}, Funding -> {Closed, Sold},
\* Closed -> {Sold}; Sold is terminal. Every step either leaves the status
\* unchanged or follows one of these edges.
C17_PropertyLifecycle ==
  [][\A p \in Props :
       \/ properties'[p].status = properties[p].status
       \/ <<properties[p].status, properties'[p].status>> \in LifecycleEdges]_vars

\* C18: a purchase commits only while its property is open for investment:
\* in every step in which a createInvestment handler writes to the database,
\* the stored property is in Funding and the time is within its window, also
\* when an updateFundingStatus interleaves with the purchase.
C18_PurchaseCommitsWhileOpen ==
  [][\A s \in Slots :
       (/\ reqs[s].op = "createInvestment"
        /\ reqs'[s] # reqs[s]
        /\ <<users, properties, investments, transactions>>' #
             <<users, properties, investments, transactions>>) =>
          isInvestmentOpen(properties[reqs[s].args.property], now)]_vars

\* C19: in every state the stored fundingPercentage of a property equals
\* (totalTokens - availableTokens) / totalTokens and lies in [0, 1].
C19_FundingPercentageDerived ==
  \A p \in Props :
    LET f == properties[p].fundingPercentage
    IN /\ FundingPercentageValid(f)
       /\ f.num * properties[p].totalTokens =
            (properties[p].totalTokens - properties[p].availableTokens) * f.den

\* C20: in every state 0 <= availableTokens <= totalTokens for each property,
\* and totalTokens is the value given at creation.
C20_InventoryWithinSupply ==
  \A p \in Props :
    /\ 0 <= properties[p].availableTokens
    /\ properties[p].availableTokens <= properties[p].totalTokens
    /\ properties[p].totalTokens = TotalTokens

\* Both slots hold a handler that has finished and not yet responded: the two
\* requests of the behaviour ran concurrently on the database of InitConc.
BothDone == \A s \in Slots : reqs[s] # Idle /\ reqs[s].pc = "done"

\* The operations of the ledger that write a wallet or the token inventory.
WalletOrInventoryOps ==
  {"createInvestment", "confirmTransaction", "addDividend", "processRefund"}

\* The database after request a, then request b, each served as a whole.
OneAfterTheOther(a, b, ta, tb) ==
  Run(Run(FundedDB, ta, NewReq(a.op, a.actor, a.args)).db,
      tb, NewReq(b.op, b.actor, b.args)).db

SameLedger(db) ==
  /\ db.users = users
  /\ \A p \in Props : db.properties[p].availableTokens = properties[p].availableTokens

\* C21: two operations that ran concurrently leave every walletBalance,
\* totalInvestments and availableTokens as serving the two one after the
\* other, in one of the two orders, would leave them: no update is lost.
C21_ConcurrentPairSerializable ==
  (BothDone /\ \A s \in Slots : reqs[s].op \in WalletOrInventoryOps) =>
    \E ta, tb \in Times :
      \/ SameLedger(OneAfterTheOther(reqs[1], reqs[2], ta, tb))
      \/ SameLedger(OneAfterTheOther(reqs[2], reqs[1], ta, tb))

\* C22: confirmTransaction, addDividend and processRefund are all-or-nothing:
\* a call that reports an error leaves no earlier write of the same call
\* committed (no Completed entry without its wallet delta, no dividend record
\* or Dividend entry without the credit, no refund entry beside a Completed
\* original).
C22_FailedOperationRolledBack ==
  [][(/\ response'.op \in {"confirmTransaction", "addDividend", "processRefund"}
      /\ response'.result # "ok") =>
        UNCHANGED <<users, properties, investments, transactions>>]_vars

\* The results that report a validation, not-found, state or authorization
\* rejection.
RejectionResults == {"ValidationError", "NotFound", "InvalidState", "PermissionDenied"}

\* C23: an operation rejected for a validation, not-found, state or
\* authorization reason leaves every wallet, property, position (with its
\* dividend and sell-order lists) and journal entry as it was before the call.
C23_RejectionChangesNothing ==
  [][response'.result \in RejectionResults =>
       UNCHANGED <<users, properties, investments, transactions>>]_vars

\* C24: addDividend and updateInvestmentValue succeed only for the owner of
\* the position's property: a call by any other actor answers
\* PermissionDenied and appends no dividend, credits no wallet, writes no
\* journal entry and leaves currentValue unchanged.
C24_OnlyPropertyOwner ==
  [][response'.op \in {"addDividend", "updateInvestmentValue"} =>
       \A rq \in Req_addDividend \cup Req_updateInvestmentValue :
         (/\ rq.args.id \in Idx(investments)
          /\ properties[investments[rq.args.id].property].owner # rq.actor
          /\ Served(rq)) =>
             /\ response'.result = "PermissionDenied"
             /\ UNCHANGED <<users, properties, investments, transactions>>]_vars

\* C25: a position's currentValue equals its investmentAmount when the
\* position is created and afterwards changes only in an updateInvestmentValue
\* step; such a step changes nothing but the currentValue of that position,
\* and a permitted call on an existing position is accepted whatever the
\* position's status.
C25_CurrentValue ==
  [][/\ \A i \in Idx(investments') :
          IF i \in Idx(investments)
          THEN investments'[i].currentValue # investments[i].currentValue =>
                 response'.op = "updateInvestmentValue"
          ELSE investments'[i].currentValue = investments'[i].investmentAmount
     /\ response'.op = "updateInvestmentValue" =>
          /\ UNCHANGED <<users, properties, transactions>>
          /\ \A rq \in Req_updateInvestmentValue :
               (Served(rq) /\ rq.args.id \in Idx(investments)) =>
                  IF response'.result = "ok"
                  THEN investments' =
                         [investments EXCEPT ![rq.args.id].currentValue = rq.args.value]
                  ELSE /\ investments' = investments
                       /\ rq.actor # properties[investments[rq.args.id].property].owner]_vars

C25_ValueUpdated ==
  /\ response = [op |-> "updateInvestmentValue", result |-> "ok"]
  /\ \E i \in Idx(investments) :
       investments[i].currentValue # investments[i].investmentAmount

\* C26: a journal entry, once created, keeps its amount, type and owner under
\* every later operation; confirmTransaction, cancelTransaction and
\* processRefund change nothing of an existing entry but its status,
\* completedAt and blockchain hash.
C26_EntriesImmutable ==
  [][/\ Len(transactions') >= Len(transactions)
     /\ \A j \in Idx(transactions) :
          /\ transactions'[j].amount = transactions[j].amount
          /\ transactions'[j].type = transactions[j].type
          /\ transactions'[j].user = transactions[j].user
          /\ transactions'[j] =
               [transactions[j] EXCEPT
                  !.status = transactions'[j].status,
                  !.completedAt = transactions'[j].completedAt,
                  !.blockchainTransactionHash = transactions'[j].blockchainTransactionHash]]_vars

C26_EntryRefundedKeepsAmount ==
  /\ response = [op |-> "processRefund", result |-> "ok"]
  /\ \E j \in Idx(transactions) :
       /\ transactions[j].status = "Refunded"
       /\ transactions[j].amount > 0
       /\ transactions[j].completedAt

\* C27: no two journal entries carry the same blockchain hash; a
\* confirmTransaction with a hash that another entry already carries fails,
\* and on that failure the entry keeps its status and no wallet changes.
C27_HashUnique ==
  [][/\ \A i, j \in Idx(transactions') :
          (i # j /\ transactions'[i].blockchainTransactionHash # Unset) =>
             transactions'[i].blockchainTransactionHash #
               transactions'[j].blockchainTransactionHash
     /\ response'.op = "confirmTransaction" =>
          \A rq \in Req_confirmTransaction :
            (/\ rq.args.id \in Idx(transactions)
             /\ transactions[rq.args.id].status # "Completed"
             /\ HashTaken(transactions, rq.args.id, rq.args.hash)
             /\ Served(rq)) =>
                /\ response'.result # "ok"
                /\ UNCHANGED <<users, properties, investments, transactions>>]_vars

C27_DuplicateHashRejected ==
  /\ response = [op |-> "confirmTransaction", result |-> "InternalError"]
  /\ \E i, j \in Idx(transactions) :
       /\ transactions[i].blockchainTransactionHash # Unset
       /\ transactions[j].status = "Pending"

\* The database with the token address of every property switched: set where
\* it is absent, absent where it is set.
OtherTokenAddress(db) ==
  [db EXCEPT !.properties =
     [p \in Props |->
        [db.properties[p] EXCEPT
           !.blockchainTokenAddress = IF @ = Unset THEN TokenAddress ELSE Unset]]]

\* C28: the blockchain step never gates a purchase: for the same request on
\* the same ledger, createInvestment answers the same and leaves the same
\* wallets, inventory, positions and journal whether or not the property has
\* a blockchain token address.
C28_BlockchainNeverGates ==
  \A rq \in Req_createInvestment :
    \E a \in {Run(DB, now, rq)} :
      \E b \in {Run(OtherTokenAddress(DB), now, rq)} :
        /\ a.rq.result = b.rq.result
        /\ a.db.users = b.db.users
        /\ a.db.investments = b.db.investments
        /\ a.db.transactions = b.db.transactions
        /\ b.db.properties = OtherTokenAddress(a.db).properties

C28_PurchaseOnTokenizedProperty ==
  /\ response = [op |-> "createInvestment", result |-> "ok"]
  /\ \E p \in Props : properties[p].blockchainTokenAddress # Unset
  /\ investments # <<>>

\* C29: completedAt is set only on completion: an entry that is Pending, or
\* that went from Pending to Failed, has no completedAt, and an entry that
\* becomes Completed (by confirmation, purchase, dividend or as a refund
\* entry) has completedAt set in that step.
C29_CompletedAt ==
  [][\A j \in Idx(transactions') :
       /\ transactions'[j].status = "Pending" => ~transactions'[j].completedAt
       /\ (/\ j \in Idx(transactions)
           /\ transactions[j].status = "Pending"
           /\ transactions'[j].status = "Failed") => ~transactions'[j].completedAt
       /\ (/\ transactions'[j].status = "Completed"
           /\ (j \in Idx(transactions) => transactions[j].status # "Completed")) =>
             transactions'[j].completedAt]_vars

C29_FailedAndCompleted ==
  /\ response = [op |-> "cancelTransaction", result |-> "ok"]
  /\ \E i, j \in Idx(transactions) :
       /\ transactions[i].status = "Failed" /\ ~transactions[i].completedAt
       /\ transactions[j].status = "Completed" /\ transactions[j].completedAt

\* C30: an operation never commits a result computed from stale state: when
\* a createInvestment handler writes the inventory or the buyer's wallet, the
\* value it writes is the stored value of that moment less its own tokens or
\* amount (or the handler has detected the concurrent change and stops with
\* ConflictError).
C30_NoCommitFromStaleState ==
  [][\A s \in Slots :
       (reqs[s].op = "createInvestment" /\ reqs'[s] # reqs[s] /\ reqs'[s] # Idle) =>
          \/ reqs'[s].result = "ConflictError"
          \/ LET p == reqs[s].args.property
                 u == reqs[s].actor
             IN /\ properties'[p].availableTokens # properties[p].availableTokens =>
                     properties'[p].availableTokens =
                       properties[p].availableTokens - reqs[s].loc.tokensPurchased
                /\ users'[u].walletBalance # users[u].walletBalance =>
                     users'[u].walletBalance =
                       users[u].walletBalance - reqs[s].loc.investmentAmount]_vars
\* The two requests in flight are a confirmTransaction and a cancelTransaction
\* of the entry that InitPending holds Pending.
ConfirmAndCancelInFlight ==
  /\ {reqs[s].op : s \in Slots} = {"confirmTransaction", "cancelTransaction"}
  /\ \A s \in Slots : reqs[s].args.id = PendingId

\* The wallet of the entry's owner holds the entry's amount on top of what it
\* held in InitPending.
PendingAmountApplied ==
  users[transactions[PendingId].user].walletBalance =
    PendingDB.users[transactions[PendingId].user].walletBalance
      + transactions[PendingId].amount

\* C31: under any interleaving of confirmTransaction and cancelTransaction on
\* the same Pending entry the outcomes agree: no step moves the entry from
\* Completed to Failed, and once both handlers have finished the entry is not
\* Failed with its amount applied to the wallet nor Completed without it.
C31_ConfirmCancelAgree ==
  [][ConfirmAndCancelInFlight =>
       /\ ~(/\ transactions[PendingId].status = "Completed"
            /\ transactions'[PendingId].status = "Failed")
       /\ BothDone' =>
            /\ transactions'[PendingId].status = "Failed" => ~PendingAmountApplied'
            /\ transactions'[PendingId].status = "Completed" => PendingAmountApplied']_vars

\* C32: processRefund on a Completed Deposit entry succeeds and leaves every
\* wallet balance unchanged: it marks the deposit Refunded and appends a
\* Completed Withdrawal entry of the same amount, but the deposited amount
\* stays in the wallet.
C32_DepositRefundKeepsWallet ==
  [][response'.op = "processRefund" =>
       \A rq \in Req_processRefund :
         (/\ rq.args.id \in Idx(transactions)
          /\ transactions[rq.args.id].type = "Deposit"
          /\ transactions[rq.args.id].status = "Completed"
          /\ Served(rq)) =>
             LET id == rq.args.id
                 e == transactions[id]
                 m == Len(transactions) + 1
             IN /\ response'.result = "ok"
                /\ users' = users
                /\ Len(transactions') = m
                /\ transactions'[id] = [e EXCEPT !.status = "Refunded"]
                /\ transactions'[m].type = "Withdrawal"
                /\ transactions'[m].status = "Completed"
                /\ transactions'[m].amount = e.amount
                /\ transactions'[m].user = e.user]_vars

\* A confirmed deposit was refunded: it is Refunded, the last entry is the
\* Withdrawal that refers back to it, and its owner's wallet still holds the
\* deposited amount.
C32_DepositRefunded ==
  /\ response = [op |-> "processRefund", result |-> "ok"]
  /\ \E i \in Idx(transactions) :
       /\ transactions[i].type = "Deposit"
       /\ transactions[i].status = "Refunded"
       /\ transactions[Len(transactions)].type = "Withdrawal"
       /\ transactions[Len(transactions)].refundedTransaction = i
       /\ users[transactions[i].user].walletBalance = transactions[i].amount

\* C33: processRefund on a Completed Investment Purchase entry leaves the
\* related position (its status Active, its tokensPurchased), the property's
\* availableTokens and fundingPercentage and the user's cumulative invested
\* amount unchanged: only the wallet balance and the journal change.
C33_PurchaseRefundKeepsPosition ==
  [][response'.op = "processRefund" =>
       \A rq \in Req_processRefund :
         (/\ rq.args.id \in Idx(transactions)
          /\ transactions[rq.args.id].type = "Investment Purchase"
          /\ transactions[rq.args.id].status = "Completed"
          /\ Served(rq)) =>
             LET e == transactions[rq.args.id]
             IN /\ response'.result = "ok"
                /\ investments' = investments
                /\ properties' = properties
                /\ \A u \in Users : users'[u].totalInvestments = users[u].totalInvestments
                /\ users' = [users EXCEPT ![e.user].walletBalance = @ + e.amount]
                /\ transactions' # transactions]_vars

\* A purchase was refunded while its position is still Active, its tokens are
\* still off the property's inventory and its amount still counts as invested.
C33_RefundedPositionStillHeld ==
  /\ response = [op |-> "processRefund", result |-> "ok"]
  /\ \E i \in Idx(transactions), k \in Idx(investments) :
       /\ transactions[i].type = "Investment Purchase"
       /\ transactions[i].status = "Refunded"
       /\ transactions[i].relatedEntity.entityId = k
       /\ investments[k].status = "Active"
       /\ investments[k].tokensPurchased > 0
       /\ properties[investments[k].property].availableTokens
            = TotalTokens - investments[k].tokensPurchased
       /\ users[investments[k].user].totalInvestments = investments[k].investmentAmount
       /\ users[investments[k].user].walletBalance = 2 * MinInvestment

\* What entry e adds to its owner's wallet when it counts: a Completed
\* Deposit, Dividend or Investment Sale adds its amount, a Completed
\* Withdrawal or Investment Purchase takes it off, any other entry counts for
\* nothing.
JournalDelta(e) ==
  IF e.status # "Completed" THEN 0
  ELSE IF e.type \in {"Deposit", "Dividend", "Investment Sale"} THEN e.amount
  ELSE IF e.type \in {"Withdrawal", "Investment Purchase"} THEN 0 - e.amount
  ELSE 0

\* The projection of user u's journal entries among txs.
RECURSIVE JournalProjection(_, _)
JournalProjection(txs, u) ==
  IF txs = <<>> THEN 0
  ELSE (IF Head(txs).user = u THEN JournalDelta(Head(txs)) ELSE 0)
         + JournalProjection(Tail(txs), u)

\* C34: in every reachable state every user's wallet balance equals the
\* projection of that user's journal: the Completed Deposit, Dividend and
\* Investment Sale amounts minus the Completed Withdrawal and Investment
\* Purchase amounts; Pending, Failed and Refunded entries count for nothing.
C34_WalletIsJournalProjection ==
  \A u \in Users : users[u].walletBalance = JournalProjection(transactions, u)

\* C35: for every position created by a purchase, the amount debited from the
\* buyer (investmentAmount) is never less than tokensPurchased times the
\* property's tokenPrice at purchase time, whichever of tokensPurchased and
\* investmentAmount the request supplied, including when it supplied both.
C35_AmountCoversTokens ==
  \A k \in Idx(investments) :
    investments[k].investmentAmount >=
      investments[k].tokensPurchased * investments[k].tokenPrice

\* The sum of investmentAmount over the positions of user u among invs.
RECURSIVE InvestedSum(_, _)
InvestedSum(invs, u) ==
  IF invs = <<>> THEN 0
  ELSE (IF Head(invs).user = u THEN Head(invs).investmentAmount ELSE 0)
         + InvestedSum(Tail(invs), u)

\* C36: after every step, every user's cumulative invested amount
\* (totalInvestments) equals the sum of investmentAmount over the positions
\* that user owns, and no step decreases it.
C36_TotalInvestmentsIsSum ==
  [][\A u \in Users :
       /\ users'[u].totalInvestments = InvestedSum(investments', u)
       /\ users'[u].totalInvestments >= users[u].totalInvestments]_vars

\* C37: no operation matches or fills a sell order or closes a position: after
\* every step every sell order is Open or Cancelled (never Filled), every
\* position has status Active, and a position that existed before the step
\* keeps its tokensPurchased and tokenPrice.
C37_NoMatchingNoClosing ==
  [][\A k \in Idx(investments') :
       /\ investments'[k].status = "Active"
       /\ \A o \in Idx(investments'[k].sellOrders) :
            investments'[k].sellOrders[o].status \in {"Open", "Cancelled"}
       /\ k \in Idx(investments) =>
            /\ investments'[k].tokensPurchased = investments[k].tokensPurchased
            /\ investments'[k].tokenPrice = investments[k].tokenPrice]_vars

\* A position has gone through the sell-order operations: it carries a
\* Cancelled order and an Open one, and still holds every token it bought.
C37_OrdersRecordedPositionIntact ==
  \E k \in Idx(investments) :
    /\ investments[k].status = "Active"
    /\ investments[k].tokensPurchased = TotalTokens
    /\ \E o1, o2 \in Idx(investments[k].sellOrders) :
         /\ investments[k].sellOrders[o1].status = "Cancelled"
         /\ investments[k].sellOrders[o2].status = "Open"

\* C38: createDeposit and createWithdrawal change no wallet balance.  Each
\* rejects an amount that is missing or <= 0, and createWithdrawal also rejects
\* an amount greater than the user's wallet balance at creation time; a
\* rejected call appends nothing.  Any other call appends exactly one Pending
\* entry of the requested type and amount.
C38_PendingEntryOnly ==
  [][response'.op \in {"createDeposit", "createWithdrawal"} =>
       \A rq \in Req_createDeposit \cup Req_createWithdrawal :
         (rq.op = response'.op /\ Served(rq)) =>
           /\ UNCHANGED <<users, properties, investments>>
           /\ IF \/ rq.args.amount = Unset
                 \/ rq.args.amount <= 0
                 \/ /\ rq.op = "createWithdrawal"
                    /\ rq.args.amount > users[rq.actor].walletBalance
              THEN /\ response'.result # "ok"
                   /\ transactions' = transactions
              ELSE /\ response'.result = "ok"
                   /\ Len(transactions') = Len(transactions) + 1
                   /\ \A j \in Idx(transactions) : transactions'[j] = transactions[j]
                   /\ \E e \in {transactions'[Len(transactions')]} :
                        /\ e.status = "Pending"
                        /\ e.amount = rq.args.amount
                        /\ e.user = rq.actor
                        /\ e.type = IF rq.op = "createDeposit" THEN "Deposit"
                                    ELSE "Withdrawal"]_vars

\* A deposit request left a Pending entry and an empty wallet, and the
\* withdrawal asked for next was rejected for exceeding the balance.
C38_WithdrawalOverBalanceRejected ==
  /\ response = [op |-> "createWithdrawal", result |-> "InsufficientFunds"]
  /\ \E i \in Idx(transactions) :
       /\ transactions[i].type = "Deposit"
       /\ transactions[i].status = "Pending"
       /\ users[transactions[i].user].walletBalance = 0
  /\ \A i \in Idx(transactions) : transactions[i].type # "Withdrawal"

\* The requests of a user without the admin role for the operations that
\* exist both as a route's handler and as a service method.
NonAdminRequests ==
  {rq \in Req_createInvestment \cup Req_createSellOrder \cup Req_cancelSellOrder
          \cup Req_addDividend \cup Req_updateInvestmentValue
          \cup Req_cancelTransaction : rq.actor \notin AdminRole}
  \cup {NewReq("confirmTransaction", u, [id |-> i, hash |-> h]) :
          u \in Users \ AdminRole, i \in TxIds, h \in Hashes}

\* C39: in every reachable state, the handler a route runs and the service
\* method of the same operation accept and reject the same requests of a
\* non-admin actor and leave the same wallets, inventory, positions and
\* journal.
C39_ControllerMatchesService ==
  \A rq \in NonAdminRequests :
    \E c \in {Run(DB, now, rq)}, s \in {service_Run(DB, now, rq)} :
      /\ (c.rq.result = "ok") <=> (s.rq.result = "ok")
      /\ c.db = s.db
====
